---- MODULE Spec2Model ----
(***************************************************************************)
(* Model of src/platform/storage/local-storage.ts: the LocalStorage        *)
(* storage engine, a promise-returning adapter over the browser's          *)
(* synchronous window.localStorage.                                        *)
(*                                                                         *)
(* JavaScript values are records [t, n, s, a]:                             *)
(*   t  the type tag ("str", "num", "bool", "null", "undef", "arr", or the *)
(*      name of an error for a thrown error object),                       *)
(*   n  the number (or 1/0 for a boolean),                                 *)
(*   s  the characters of a string, one character per element,             *)
(*   a  the elements of an array.                                          *)
(* Unused fields are 0 / <<>>, so record equality is deep equality.        *)
(***************************************************************************)
EXTENDS Integers, Sequences, FiniteSets

VARIABLES store, written, last, jobs, delivered

vars == <<store, written, last, jobs, delivered>>

----------------------------------------------------------------------------
(* JavaScript values *)

V(t, n, s, a) == [t |-> t, n |-> n, s |-> s, a |-> a]

Str(s) == V("str", 0, s, <<>>)

Num(n) == V("num", n, <<>>, <<>>)

Bool(b) == V("bool", IF b THEN 1 ELSE 0, <<>>, <<>>)

Null == V("null", 0, <<>>, <<>>)

Undef == V("undef", 0, <<>>, <<>>)

Arr(a) == V("arr", 0, <<>>, a)

ErrVal(e) == V(e, 0, <<>>, <<>>)

(* Array.isArray *)
IsArray(v) == v.t = "arr"

----------------------------------------------------------------------------
(* Text helpers: a string is a sequence of one-character strings *)

Digit == <<"0", "1", "2", "3", "4", "5", "6", "7", "8", "9">>

DigitChars == {Digit[i] : i \in 1..10}

DigitVal(c) == (CHOOSE i \in 1..10 : Digit[i] = c) - 1

RECURSIVE NatToChars(_)
NatToChars(n) ==
  IF n < 10 THEN <<Digit[n + 1]>>
  ELSE NatToChars(n \div 10) \o <<Digit[(n % 10) + 1]>>

(* Number -> string, as String(n) and JSON.stringify(n) do for an integer *)
IntToChars(n) == IF n < 0 THEN <<"-">> \o NatToChars(0 - n) ELSE NatToChars(n)

TrueChars == <<"t", "r", "u", "e">>

FalseChars == <<"f", "a", "l", "s", "e">>

NullChars == <<"n", "u", "l", "l">>

UndefinedChars == <<"u", "n", "d", "e", "f", "i", "n", "e", "d">>

----------------------------------------------------------------------------
(* JSON.stringify, applied by testForArray to an array *)

RECURSIVE QuoteBody(_)
QuoteBody(s) ==
  IF s = <<>> THEN <<>>
  ELSE (IF Head(s) \in {"\"", "\\"} THEN <<"\\", Head(s)>> ELSE <<Head(s)>>)
       \o QuoteBody(Tail(s))

RECURSIVE JSONstringify(_)
JSONstringify(v) ==
  LET RECURSIVE Elems(_)
      Elems(a) ==
        IF a = <<>> THEN <<>>
        ELSE JSONstringify(Head(a))
             \o (IF Len(a) > 1 THEN <<",">> \o Elems(Tail(a)) ELSE <<>>)
  IN CASE v.t = "str" -> <<"\"">> \o QuoteBody(v.s) \o <<"\"">>
       [] v.t = "num" -> IntToChars(v.n)
       [] v.t = "bool" -> (IF v.n = 1 THEN TrueChars ELSE FalseChars)
       [] v.t = "arr" -> <<"[">> \o Elems(v.a) \o <<"]">>
       [] OTHER -> NullChars

(* ToString: the coercion the host applies to the value argument of        *)
(* setItem, and JSON.parse to its argument                                 *)
RECURSIVE ToDOMString(_)
ToDOMString(v) ==
  LET ElemStr(e) == IF e.t \in {"null", "undef"} THEN <<>> ELSE ToDOMString(e)
      RECURSIVE Join(_)
      Join(a) ==
        IF a = <<>> THEN <<>>
        ELSE ElemStr(Head(a))
             \o (IF Len(a) > 1 THEN <<",">> \o Join(Tail(a)) ELSE <<>>)
  IN CASE v.t = "str" -> v.s
       [] v.t = "num" -> IntToChars(v.n)
       [] v.t = "bool" -> (IF v.n = 1 THEN TrueChars ELSE FalseChars)
       [] v.t = "null" -> NullChars
       [] v.t = "undef" -> UndefinedChars
       [] v.t = "arr" -> Join(v.a)
       [] OTHER -> v.s

----------------------------------------------------------------------------
(* JSON.parse: a recursive-descent parser of the JSON grammar over the     *)
(* model's alphabet: whitespace, null, true, false, integers, quoted       *)
(* strings with the escapes \" and \\, and arrays.  The alphabet has no    *)
(* braces, no '.', and no input puts an exponent after a digit.            *)
(* A parse result is [ok, v, i]: success, the value, the next position.    *)

Fail == [ok |-> FALSE, v |-> Undef, i |-> 0]

Ok(v, i) == [ok |-> TRUE, v |-> v, i |-> i]

WhiteSpace == {" "}

RECURSIVE SkipWs(_, _)
SkipWs(s, i) ==
  IF i <= Len(s) /\ s[i] \in WhiteSpace THEN SkipWs(s, i + 1) ELSE i

StartsWith(s, i, w) ==
  /\ i + Len(w) - 1 <= Len(s)
  /\ SubSeq(s, i, i + Len(w) - 1) = w

RECURSIVE ParseDigits(_, _, _)
ParseDigits(s, i, acc) ==
  IF i <= Len(s) /\ s[i] \in DigitChars
  THEN ParseDigits(s, i + 1, acc * 10 + DigitVal(s[i]))
  ELSE Ok(Num(acc), i)

(* number: -? ( 0 | [1-9][0-9]* ) *)
ParseNumber(s, i) ==
  LET neg == s[i] = "-"
      j == IF neg THEN i + 1 ELSE i
  IN IF j > Len(s) \/ s[j] \notin DigitChars THEN Fail
     ELSE LET r == IF s[j] = "0" THEN Ok(Num(0), j + 1)
                   ELSE ParseDigits(s, j, 0)
          IN Ok(Num(IF neg THEN 0 - r.v.n ELSE r.v.n), r.i)

(* string: the opening quote is at i - 1 *)
RECURSIVE ParseString(_, _, _)
ParseString(s, i, acc) ==
  IF i > Len(s) THEN Fail
  ELSE IF s[i] = "\"" THEN Ok(Str(acc), i + 1)
  ELSE IF s[i] = "\\"
       THEN IF i + 1 <= Len(s) /\ s[i + 1] \in {"\"", "\\"}
            THEN ParseString(s, i + 2, Append(acc, s[i + 1]))
            ELSE Fail
  ELSE ParseString(s, i + 1, Append(acc, s[i]))

RECURSIVE ParseValue(_, _)
ParseValue(s, i0) ==
  LET i == SkipWs(s, i0)
      RECURSIVE ParseElems(_, _)
      ParseElems(j, acc) ==
        LET r == ParseValue(s, j)
            k == IF r.ok THEN SkipWs(s, r.i) ELSE 0
        IN IF ~r.ok \/ k > Len(s) THEN Fail
           ELSE IF s[k] = "," THEN ParseElems(k + 1, Append(acc, r.v))
           ELSE IF s[k] = "]" THEN Ok(Arr(Append(acc, r.v)), k + 1)
           ELSE Fail
      ParseArray ==
        LET j == SkipWs(s, i + 1)
        IN IF j > Len(s) THEN Fail
           ELSE IF s[j] = "]" THEN Ok(Arr(<<>>), j + 1)
           ELSE ParseElems(j, <<>>)
  IN IF i > Len(s) THEN Fail
     ELSE IF StartsWith(s, i, NullChars) THEN Ok(Null, i + 4)
     ELSE IF StartsWith(s, i, TrueChars) THEN Ok(Bool(TRUE), i + 4)
     ELSE IF StartsWith(s, i, FalseChars) THEN Ok(Bool(FALSE), i + 5)
     ELSE IF s[i] = "\"" THEN ParseString(s, i + 1, <<>>)
     ELSE IF s[i] = "[" THEN ParseArray
     ELSE IF s[i] = "-" \/ s[i] \in DigitChars THEN ParseNumber(s, i)
     ELSE Fail

(* JSON.parse(text): [ok |-> FALSE] stands for the SyntaxError it throws *)
JSONparse(text) ==
  LET s == ToDOMString(text)
      r == ParseValue(s, 1)
  IN IF r.ok /\ SkipWs(s, r.i) = Len(s) + 1 THEN r ELSE Fail

----------------------------------------------------------------------------
(* Inputs *)

(* at most this many settled promises wait for their continuation *)
MaxJobs == 2

Keys == {"k", "count"}

NoErr == "none"

(* errors the host store raises: setItem over quota, any call when access  *)
(* to the store is denied                                                  *)
HostErr == {"QuotaExceededError", "SecurityError"}

Arr123 == Arr(<<Num(1), Num(2), Num(3)>>)

Arr123Chars == <<"[", "1", ",", "2", ",", "3", "]">>

(* arrays whose elements JSON represents *)
JsonArrays ==
  { Arr(<<>>),
    Arr123,
    Arr(<<Num(-7), Num(10)>>),
    Arr(<<Str(<<"a">>), Str(<<"q", "\"", "\\">>), Str(<<>>)>>),
    Arr(<<Bool(TRUE), Bool(FALSE), Null>>),
    Arr(<<Arr(<<Num(1)>>), Arr(<<>>)>>) }

(* an array with an element JSON does not represent *)
OtherArrays == { Arr(<<Undef>>) }

(* strings JSON.parse rejects *)
PlainStrings ==
  { Str(<<>>),
    Str(<<"a">>),
    Str(<<"t", "r", "u">>),
    Str(<<"[", "1", ",">>),
    Str(<<"0", "1">>) }

(* strings JSON.parse accepts *)
LiteralStrings ==
  { Str(TrueChars),
    Str(<<"4", "2">>),
    Str(Arr123Chars),
    Str(<<" ", "\"", "a", "\"">>) }

Primitives == { Num(42), Bool(TRUE), Null, Undef }

Values == JsonArrays \cup OtherArrays \cup PlainStrings \cup LiteralStrings
          \cup Primitives

(* the values a caller passes to set: every value for key "k", and for key *)
(* "count" one of each kind                                                *)
ValuesFor(key) ==
  IF key = "k" THEN Values
  ELSE { Num(42), Str(<<"4", "2">>), Arr123, Str(<<>>) }

(* what the host store holds when the adapter is constructed *)
EmptyStore == [k \in {} |-> Null]

InitStores == { EmptyStore, [k \in {"k"} |-> Str(<<"a">>)] }

----------------------------------------------------------------------------
(* The host store, window.localStorage: a map from keys to strings *)

(* getItem(key): the value, or null for a missing key *)
getItem(st, key) == IF key \in DOMAIN st THEN st[key] ELSE Null

(* setItem(key, value): stores the string form of value *)
setItem(st, key, value) ==
  [k \in DOMAIN st \cup {key} |->
     IF k = key THEN Str(ToDOMString(value)) ELSE st[k]]

(* removeItem(key) *)
removeItem(st, key) == [k \in DOMAIN st \ {key} |-> st[k]]

(* clear() *)
clearItems(st) == EmptyStore

----------------------------------------------------------------------------
(* LocalStorage *)

(* testParse without the JSON.parse *)
testParseRaw(value) == value

(* testParse whose catch branch returns nothing *)
testParseNoFallback(value) ==
  LET r == JSONparse(value)
  IN IF r.ok THEN r.v ELSE Undef

(* testParse: JSON.parse(value), or value itself when that throws *)
testParse(value) ==
  LET r == JSONparse(value)
  IN IF r.ok THEN r.v ELSE value

(* testForArray without the JSON.stringify *)
testForArrayAsIs(value) == value

(* testForArray: JSON.stringify(value) for an array, else value itself *)
testForArray(value) ==
  IF IsArray(value) THEN Str(JSONstringify(value)) ELSE value

(* What a handler's promise executor does, in order: an event per host     *)
(* call and per call of resolve or reject, with the argument the latter   *)
(* was passed.                                                             *)
Ev(e, arg) == [e |-> e, arg |-> arg]

HostCalls == {"getItem", "setItem", "removeItem", "clear"}

SettleCalls == {"resolve", "reject"}

(* A handler returns the host store it leaves and the events of its run.   *)
(* hostErr is the error the host call raises, NoErr when it returns.       *)

(* get that resolves with the stored string, not passing it to testParse *)
getRaw(st, key, hostErr) ==
  IF hostErr # NoErr
  THEN [store |-> st,
        events |-> <<Ev("getItem", Undef), Ev("reject", ErrVal(hostErr))>>]
  ELSE [store |-> st,
        events |-> <<Ev("getItem", Undef), Ev("resolve", getItem(st, key))>>]

get(st, key, hostErr) ==
  IF hostErr # NoErr
  THEN [store |-> st,
        events |-> <<Ev("getItem", Undef), Ev("reject", ErrVal(hostErr))>>]
  ELSE LET value == testParse(getItem(st, key))
       IN [store |-> st,
           events |-> <<Ev("getItem", Undef), Ev("resolve", value)>>]

(* set whose catch branch calls resolve *)
setSwallows(st, key, value, hostErr) ==
  LET checkedValue == testForArray(value)
  IN IF hostErr # NoErr
     THEN [store |-> st,
           events |-> <<Ev("setItem", Undef), Ev("resolve", Undef)>>]
     ELSE [store |-> setItem(st, key, checkedValue),
           events |-> <<Ev("setItem", Undef), Ev("resolve", Undef)>>]

(* set that writes only a key the store does not hold yet *)
setIfAbsent(st, key, value, hostErr) ==
  LET checkedValue == testForArray(value)
  IN IF hostErr # NoErr
     THEN [store |-> st,
           events |-> <<Ev("setItem", Undef), Ev("reject", ErrVal(hostErr))>>]
     ELSE [store |-> IF key \in DOMAIN st THEN st
                     ELSE setItem(st, key, checkedValue),
           events |-> <<Ev("setItem", Undef), Ev("resolve", Undef)>>]

set(st, key, value, hostErr) ==
  LET checkedValue == testForArray(value)
  IN IF hostErr # NoErr
     THEN [store |-> st,
           events |-> <<Ev("setItem", Undef),
                        Ev("reject", ErrVal(hostErr))>>]
     ELSE [store |-> setItem(st, key, checkedValue),
           events |-> <<Ev("setItem", Undef), Ev("resolve", Undef)>>]

(* remove that resolves without calling removeItem *)
removeKeeps(st, key, hostErr) ==
  IF hostErr # NoErr
  THEN [store |-> st,
        events |-> <<Ev("removeItem", Undef), Ev("reject", ErrVal(hostErr))>>]
  ELSE [store |-> st,
        events |-> <<Ev("removeItem", Undef), Ev("resolve", Undef)>>]

(* remove that calls clear() in place of removeItem(key) *)
removeAll(st, key, hostErr) ==
  IF hostErr # NoErr
  THEN [store |-> st,
        events |-> <<Ev("removeItem", Undef), Ev("reject", ErrVal(hostErr))>>]
  ELSE [store |-> clearItems(st),
        events |-> <<Ev("removeItem", Undef), Ev("resolve", Undef)>>]

remove(st, key, hostErr) ==
  IF hostErr # NoErr
  THEN [store |-> st,
        events |-> <<Ev("removeItem", Undef), Ev("reject", ErrVal(hostErr))>>]
  ELSE [store |-> removeItem(st, key),
        events |-> <<Ev("removeItem", Undef), Ev("resolve", Undef)>>]

(* clear that removes one key only *)
clearOne(st, hostErr) ==
  IF hostErr # NoErr
  THEN [store |-> st,
        events |-> <<Ev("clear", Undef), Ev("reject", ErrVal(hostErr))>>]
  ELSE [store |-> removeItem(st, "k"),
        events |-> <<Ev("clear", Undef), Ev("resolve", Undef)>>]

(* clear that tries the host call again when it throws *)
clearRetries(st, hostErr) ==
  IF hostErr # NoErr
  THEN [store |-> st,
        events |-> <<Ev("clear", Undef), Ev("clear", Undef),
                     Ev("reject", ErrVal(hostErr))>>]
  ELSE [store |-> clearItems(st),
        events |-> <<Ev("clear", Undef), Ev("resolve", Undef)>>]

clear(st, hostErr) ==
  IF hostErr # NoErr
  THEN [store |-> st,
        events |-> <<Ev("clear", Undef), Ev("reject", ErrVal(hostErr))>>]
  ELSE [store |-> clearItems(st),
        events |-> <<Ev("clear", Undef), Ev("resolve", Undef)>>]

(* new Promise(executor): the first call of resolve or reject settles the  *)
(* promise, later ones are ignored, and with none it stays pending         *)
Promise(events) ==
  LET idx == {i \in 1..Len(events) : events[i].e \in SettleCalls}
  IN IF idx = {} THEN [state |-> "pending", payload |-> Undef]
     ELSE LET i == CHOOSE j \in idx : \A m \in idx : j <= m
          IN [state |-> IF events[i].e = "resolve" THEN "resolved"
                        ELSE "rejected",
              payload |-> events[i].arg]

----------------------------------------------------------------------------
(* State                                                                   *)
(*   store      the host store                                             *)
(*   written    per key, the last host write that returned: "set" with the *)
(*              value the caller passed, "removed", "cleared", or "none"   *)
(*   last       the latest invocation: operation, key, the error the host  *)
(*              raised, the executor's events, and the promise it returned *)
(*   jobs       the settled promises whose continuation has not run yet,   *)
(*              in the order the event loop will run them                  *)
(*   delivered  the settlement handed to the continuation that ran last    *)

Call(op, key, hostErr, events) ==
  [op |-> op, key |-> key, threw |-> hostErr, events |-> events,
   state |-> Promise(events).state, payload |-> Promise(events).payload]

Mark(w, v) == [w |-> w, v |-> v]

Init ==
  /\ store \in InitStores
  /\ written = [k \in Keys |-> Mark("none", Undef)]
  /\ last = Call("none", "none", NoErr, <<>>)
  /\ jobs = <<>>
  /\ delivered = "none"

(* the caller attaches its continuation to the promise it got back *)
Then(c) == IF c.state = "pending" THEN jobs ELSE Append(jobs, c.state)

Get(key, hostErr) ==
  /\ Len(jobs) < MaxJobs
  /\ LET r == get(store, key, hostErr)
     IN /\ store' = r.store
        /\ last' = Call("get", key, hostErr, r.events)
        /\ jobs' = Then(last')
  /\ UNCHANGED <<written, delivered>>

Set(key, value, hostErr) ==
  /\ Len(jobs) < MaxJobs
  /\ LET r == set(store, key, value, hostErr)
     IN /\ store' = r.store
        /\ last' = Call("set", key, hostErr, r.events)
        /\ jobs' = Then(last')
  /\ written' = IF hostErr = NoErr
                THEN [written EXCEPT ![key] = Mark("set", value)]
                ELSE written
  /\ UNCHANGED delivered

Remove(key, hostErr) ==
  /\ Len(jobs) < MaxJobs
  /\ LET r == remove(store, key, hostErr)
     IN /\ store' = r.store
        /\ last' = Call("remove", key, hostErr, r.events)
        /\ jobs' = Then(last')
  /\ written' = IF hostErr = NoErr
                THEN [written EXCEPT ![key] = Mark("removed", Undef)]
                ELSE written
  /\ UNCHANGED delivered

Clear(hostErr) ==
  /\ Len(jobs) < MaxJobs
  /\ LET r == clear(store, hostErr)
     IN /\ store' = r.store
        /\ last' = Call("clear", "none", hostErr, r.events)
        /\ jobs' = Then(last')
  /\ written' = IF hostErr = NoErr
                THEN [k \in Keys |-> Mark("cleared", Undef)]
                ELSE written
  /\ UNCHANGED delivered

(* the event loop runs the oldest waiting continuation *)
RunJob ==
  /\ jobs # <<>>
  /\ delivered' = Head(jobs)
  /\ jobs' = Tail(jobs)
  /\ UNCHANGED <<store, written, last>>

Outcomes == HostErr \cup {NoErr}

(* a caller invokes an operation *)
Invoke ==
  \/ \E key \in Keys, e \in Outcomes : Get(key, e)
  \/ \E key \in Keys, e \in Outcomes :
        \E value \in ValuesFor(key) : Set(key, value, e)
  \/ \E key \in Keys, e \in Outcomes : Remove(key, e)
  \/ \E e \in Outcomes : Clear(e)

Next ==
  \/ Invoke
  \/ RunJob

Spec == Init /\ [][Next]_vars

----------------------------------------------------------------------------
(* Properties *)

(* the latest invocation is a get of key whose host read returned *)
GotKey(key) == last.op = "get" /\ last.key = key /\ last.threw = NoErr

(* key holds what set(key, v) wrote: no write, remove or clear of the      *)
(* store returned since                                                    *)
HoldsSet(key, v) == written[key] = Mark("set", v)

(* JSON represents every element of the array v *)
RECURSIVE Representable(_)
Representable(v) ==
  \A i \in 1..Len(v.a) :
    \/ v.a[i].t \in {"num", "str", "bool", "null"}
    \/ v.a[i].t = "arr" /\ Representable(v.a[i])

(* C1: set(k, v) with an array v of JSON-representable elements, followed  *)
(* by get(k) with no write, remove or clear in between, resolves to a      *)
(* value deep-equal to v.                                                  *)
C1_ArrayRoundTrip ==
  \A key \in Keys, v \in Values :
    (GotKey(key) /\ HoldsSet(key, v) /\ IsArray(v) /\ Representable(v))
      => (last.state = "resolved" /\ last.payload = v)

C1_Witness ==
  /\ GotKey("k")
  /\ HoldsSet("k", Arr(<<Str(<<"a">>), Str(<<"q", "\"", "\\">>), Str(<<>>)>>))
  /\ last.payload.t = "arr"
  /\ Len(last.payload.a) = 3

(* C2: set(k, v) with a plain string v that is no JSON literal (the empty  *)
(* string included), followed by get(k) with no write in between, resolves *)
(* to exactly v.                                                           *)
C2_PlainStringRoundTrip ==
  \A key \in Keys, v \in PlainStrings :
    (GotKey(key) /\ HoldsSet(key, v))
      => (last.state = "resolved" /\ last.payload = v)

C2_Witness ==
  /\ GotKey("k")
  /\ HoldsSet("k", Str(<<>>))
  /\ last.payload = Str(<<>>)

C4_RemoveThenGet ==
  /\ (last.op = "remove" /\ last.threw = NoErr)
       => /\ last.state = "resolved"
          /\ last.payload = Undef
          /\ last.key \notin DOMAIN store
  /\ \A key \in Keys :
       (GotKey(key) /\ written[key].w = "removed")
         => (last.state = "resolved" /\ last.payload = Null)

C4_Witness ==
  /\ GotKey("k")
  /\ written["k"].w = "removed"
  /\ last.payload = Null
  /\ "count" \in DOMAIN store

(* C5: clear() whose host call returns leaves the store without entries,   *)
(* and get(k) resolves to null until k is set again.                       *)
C5_ClearThenGet ==
  /\ (last.op = "clear" /\ last.threw = NoErr)
       => /\ last.state = "resolved"
          /\ last.payload = Undef
          /\ DOMAIN store = {}
  /\ \A key \in Keys :
       (GotKey(key) /\ written[key].w = "cleared")
         => (last.state = "resolved" /\ last.payload = Null)

C5_Witness ==
  /\ GotKey("count")
  /\ written["count"].w = "cleared"
  /\ written["k"].w = "set"
  /\ last.payload = Null

(* this step is an invocation: it hands back a promise, whose            *)
(* continuation joins the waiting ones; last' describes the invocation     *)
Invoked == Len(jobs') > Len(jobs)

(* C6: when the host call of get, set, remove or clear raises an error,    *)
(* the promise is rejected with that error, and the store is left as it    *)
(* was, so a failed set keeps the key's earlier value.                     *)
C6_HostErrorRejects ==
  [][(Invoked /\ last'.threw \in HostErr)
       => /\ last'.state = "rejected"
          /\ last'.payload = ErrVal(last'.threw)
          /\ store' = store]_vars

C6_Witness ==
  /\ last.op = "set"
  /\ last.key = "k"
  /\ last.threw = "QuotaExceededError"
  /\ last.state = "rejected"
  /\ last.payload = ErrVal("QuotaExceededError")
  /\ HoldsSet("k", Arr123)
  /\ store["k"] = Str(Arr123Chars)

(* C7: the host store holds strings only; after set(k, [1,2,3]) it holds   *)
(* the string "[1,2,3]" for k, and after set(k, v) with v no array it      *)
(* holds the host's string form of v itself.                               *)
C7_StoredStrings ==
  /\ \A key \in DOMAIN store : store[key].t = "str"
  /\ \A key \in Keys :
       /\ HoldsSet(key, Arr123) => store[key] = Str(Arr123Chars)
       /\ HoldsSet(key, Arr(<<>>)) => store[key] = Str(<<"[", "]">>)
       /\ \A v \in PlainStrings \cup LiteralStrings :
            HoldsSet(key, v) => store[key] = v
       /\ HoldsSet(key, Num(42)) => store[key] = Str(<<"4", "2">>)
       /\ HoldsSet(key, Bool(TRUE)) => store[key] = Str(TrueChars)
       /\ HoldsSet(key, Null) => store[key] = Str(NullChars)
       /\ HoldsSet(key, Undef) => store[key] = Str(UndefinedChars)

C7_Witness ==
  /\ last.op = "set"
  /\ last.key = "k"
  /\ last.state = "resolved"
  /\ HoldsSet("k", Arr123)
  /\ store["k"] = Str(Arr123Chars)
  /\ HoldsSet("count", Num(42))

(* the string set(k, v) is to leave in the store *)
StringForm(v) == IF IsArray(v) THEN JSONstringify(v) ELSE ToDOMString(v)

(* the store's entry for key is what the last returned write of key, in    *)
(* invocation order, made it                                               *)
LastWriteWins(key) ==
  /\ written[key].w = "set"
       => (key \in DOMAIN store /\ store[key] = Str(StringForm(written[key].v)))
  /\ written[key].w \in {"removed", "cleared"} => key \notin DOMAIN store

(* the executor made its host call before it settled the promise *)
HostCallThenSettle(c) ==
  /\ Len(c.events) >= 2
  /\ c.events[1].e \in HostCalls
  /\ c.events[Len(c.events)].e \in SettleCalls

(* C8: an operation makes its host call when it is invoked, before its     *)
(* promise settles, and its continuation runs in a later step; so while    *)
(* continuations are still waiting, each key's entry is the one the last   *)
(* invoked set, remove or clear of that key left (last write wins), and a  *)
(* set or remove of one key does not change what the other key reads.      *)
C8_InvocationOrder ==
  [][/\ \A key \in Keys : LastWriteWins(key)'
     /\ Invoked => /\ HostCallThenSettle(last')
                   /\ jobs' = Append(jobs, last'.state)
                   /\ delivered' = delivered
     /\ \A key \in Keys :
          (Invoked /\ last'.op \in {"set", "remove"} /\ last'.key # key)
            => getItem(store', key) = getItem(store, key)]_vars

C8_Witness ==
  /\ Len(jobs) = 2
  /\ delivered = "none"
  /\ last.op = "remove"
  /\ last.key = "k"
  /\ last.state = "resolved"
  /\ "k" \notin DOMAIN store
  /\ HoldsSet("count", Str(<<>>))
  /\ store["count"] = Str(<<>>)

(* C9: get(k) leaves the host store as it is; set(k, v) and remove(k)      *)
(* leave the entry of every other key as it is; and two successive gets    *)
(* that find the same content in the store resolve to the same value.      *)
C9_Frame ==
  [][/\ (Invoked /\ last'.op = "get") => store' = store
     /\ (Invoked /\ last'.op \in {"set", "remove"})
          => \A other \in Keys \ {last'.key} :
               /\ (other \in DOMAIN store') = (other \in DOMAIN store)
               /\ getItem(store', other) = getItem(store, other)
     /\ (/\ last.op = "get"
         /\ last.threw = NoErr
         /\ Invoked
         /\ last'.op = "get"
         /\ last'.threw = NoErr
         /\ getItem(store', last'.key) = getItem(store, last.key))
          => last'.payload = last.payload]_vars

C9_Witness ==
  /\ last.op = "remove"
  /\ last.key = "k"
  /\ last.threw = NoErr
  /\ HoldsSet("count", Num(42))
  /\ store["count"] = Str(<<"4", "2">>)
  /\ "k" \notin DOMAIN store

(* the events of a run whose name is in names *)
Count(events, names) ==
  Cardinality({i \in 1..Len(events) : events[i].e \in names})

====
